---- MODULE Spec2Model ----
(***************************************************************************)
(* Story2Test AI (src/streamlit_app.py): the Streamlit script that turns   *)
(* acceptance criteria into test cases.  Modelled here:                    *)
(*   - extract_json (JSON Extractor), over texts made of JSON lexemes;      *)
(*   - to_df / pd.concat (Result Normalizer);                               *)
(*   - one script run, with or without the Generate button clicked.        *)
(*                                                                         *)
(* Python values are records tagged by t: none, num, str, list, dict.  A   *)
(* str is a sequence of atoms; the text of a completion is a str whose     *)
(* atoms are JSON lexemes ("{", ",", a quoted string literal, ...), prose  *)
(* words ("w") and whitespace (" ").  No string literal of the alphabet    *)
(* holds a brace.                                                          *)
(***************************************************************************)
EXTENDS Integers, Sequences, FiniteSets, TLC

VARIABLES
    env_key,        \* OPENAI_API_KEY, read once at process start (line 9)
    session_key,    \* st.session_state["openai_api_key"], or Absent
    last_results,   \* st.session_state['last_results'], or Absent
    clicked,        \* generate_btn of the last script run
    ac,             \* the text area's value in the last script run
    outcome,        \* how the last script run (or pure step) ended
    requests,       \* chat.completions.create calls made by the last run
    raw,            \* the completion handed to extract_json
    parsed,         \* what extract_json returned
    shown,          \* the table the results block drew in the last run
    display,        \* how the results block of the last run went
    expander,       \* the raw output shown under "View Raw Output", or Absent
    src             \* the parts the input of a pure step was built from

vars == <<env_key, session_key, last_results, clicked, ac, outcome, requests,
          raw, parsed, shown, display, expander, src>>

(***************************************************************************)
(* Bounds of the model.                                                    *)
(***************************************************************************)
MaxPad == 1
MaxItems == 2

(***************************************************************************)
(* Python values.                                                          *)
(***************************************************************************)
Absent == [t |-> "absent"]
NotRun == [t |-> "notrun"]
PyNone == [t |-> "none"]
PyNum == [t |-> "num"]
PyStr(s) == [t |-> "str", s |-> s]
PyList(items) == [t |-> "list", items |-> items]
PyDict(d) == [t |-> "dict", d |-> d]
Raised(e) == [t |-> "raise", e |-> e]

IsStr(v) == v.t = "str"
IsList(v) == v.t = "list"
IsDict(v) == v.t = "dict"
IsRaised(v) == v.t = "raise"

EmptyStr == PyStr(<< >>)
EmptyList == PyList(<< >>)
Atom(a) == PyStr(<<a>>)

Range(f) == {f[x] : x \in DOMAIN f}

\* The keys of the model's dicts, in the order a dict built from a text holds them.
KeyOrder == <<"positive", "negative", "id", "title", "preconditions", "steps",
              "expected_result", "priority", "raw_text", "a">>

EmptyMap == [k \in {} |-> PyNone]
Put(d, k, v) == [x \in (DOMAIN d) \cup {k} |-> IF x = k THEN v ELSE d[x]]

\* The keys of dict v in iteration order.
Keys(v) == SelectSeq(KeyOrder, LAMBDA k : k \in DOMAIN v.d)

(***************************************************************************)
(* JSON lexemes.  A string literal lexeme is the atom in double quotes.    *)
(***************************************************************************)
LitTable ==
    << <<"positive", "\"positive\"">>, <<"negative", "\"negative\"">>,
       <<"id", "\"id\"">>, <<"title", "\"title\"">>,
       <<"preconditions", "\"preconditions\"">>, <<"steps", "\"steps\"">>,
       <<"expected_result", "\"expected_result\"">>,
       <<"priority", "\"priority\"">>, <<"raw_text", "\"raw_text\"">>,
       <<"a", "\"a\"">>, <<"b", "\"b\"">>, <<"High", "\"High\"">>,
       <<"Medium", "\"Medium\"">>, <<"Low", "\"Low\"">>,
       <<"Critical", "\"Critical\"">> >>

StrLits == {p[2] : p \in Range(LitTable)}
Quote(a) == (CHOOSE p \in Range(LitTable) : p[1] = a)[2]
Unquote(tok) == (CHOOSE p \in Range(LitTable) : p[2] = tok)[1]

(***************************************************************************)
(* json.loads: a recursive-descent parse of one value, then end of text.   *)
(***************************************************************************)
ParseFail == [ok |-> FALSE, v |-> PyNone, i |-> 0]
ParseOk(v, i) == [ok |-> TRUE, v |-> v, i |-> i]

At(s, i, tok) == i <= Len(s) /\ s[i] = tok

RECURSIVE ParseValue(_, _)
RECURSIVE ParseElements(_, _, _)
RECURSIVE ParseMembers(_, _, _)

ParseValue(s, i) ==
    IF i > Len(s) THEN ParseFail
    ELSE LET c == s[i] IN
         CASE c = "1" -> ParseOk(PyNum, i + 1)
           [] c = "null" -> ParseOk(PyNone, i + 1)
           [] c \in StrLits -> ParseOk(Atom(Unquote(c)), i + 1)
           [] c = "[" -> IF At(s, i + 1, "]") THEN ParseOk(EmptyList, i + 2)
                         ELSE ParseElements(s, i + 1, << >>)
           [] c = "{" -> IF At(s, i + 1, "}") THEN ParseOk(PyDict(EmptyMap), i + 2)
                         ELSE ParseMembers(s, i + 1, EmptyMap)
           [] OTHER -> ParseFail

ParseElements(s, i, acc) ==
    LET r == ParseValue(s, i) IN
    IF ~r.ok THEN ParseFail
    ELSE IF At(s, r.i, ",") THEN ParseElements(s, r.i + 1, Append(acc, r.v))
    ELSE IF At(s, r.i, "]") THEN ParseOk(PyList(Append(acc, r.v)), r.i + 1)
    ELSE ParseFail

ParseMembers(s, i, acc) ==
    IF ~(i <= Len(s) /\ s[i] \in StrLits /\ At(s, i + 1, ":")) THEN ParseFail
    ELSE LET r == ParseValue(s, i + 2) IN
         IF ~r.ok THEN ParseFail
         ELSE LET d == Put(acc, Unquote(s[i]), r.v) IN
              IF At(s, r.i, ",") THEN ParseMembers(s, r.i + 1, d)
              ELSE IF At(s, r.i, "}") THEN ParseOk(PyDict(d), r.i + 1)
              ELSE ParseFail

\* Whitespace between lexemes is skipped by the decoder.
Lexemes(s) == SelectSeq(s, LAMBDA c : c # " ")

\* json.loads(text): [ok, v], or a raise when text is no str (None).
Tried(ok, v) == [ok |-> ok, v |-> v]

JsonLoads(text) ==
    IF ~IsStr(text) THEN Tried(FALSE, Raised("TypeError"))
    ELSE LET s == Lexemes(text.s)
             r == ParseValue(s, 1)
         IN  IF r.ok /\ r.i = Len(s) + 1 THEN Tried(TRUE, r.v)
             ELSE Tried(FALSE, Raised("JSONDecodeError"))

(***************************************************************************)
(* re.search(r'(\{.*\})', text, re.S): the leftmost "{" that has a "}"     *)
(* after it, up to the last "}" of the text (greedy, dot matches all).     *)
(***************************************************************************)
NoMatch == [found |-> FALSE, group |-> << >>]

\* Variant: a lazy quantifier, r'(\{.*?\})', stops at the first "}".
ReSearchLazy(s) ==
    LET starts == {i \in 1..Len(s) : s[i] = "{" /\ \E j \in (i + 1)..Len(s) : s[j] = "}"}
    IN  IF starts = {} THEN NoMatch
        ELSE LET i == CHOOSE x \in starts : \A y \in starts : x <= y
                 ends == {j \in (i + 1)..Len(s) : s[j] = "}"}
                 j == CHOOSE x \in ends : \A y \in ends : x <= y
             IN  [found |-> TRUE, group |-> SubSeq(s, i, j)]

ReSearch(s) ==
    LET starts == {i \in 1..Len(s) : s[i] = "{" /\ \E j \in (i + 1)..Len(s) : s[j] = "}"}
    IN  IF starts = {} THEN NoMatch
        ELSE LET i == CHOOSE x \in starts : \A y \in starts : x <= y
                 ends == {j \in (i + 1)..Len(s) : s[j] = "}"}
                 j == CHOOSE x \in ends : \A y \in ends : x >= y
             IN  [found |-> TRUE, group |-> SubSeq(s, i, j)]

(***************************************************************************)
(* extract_json (lines 33-44).  The bare except catches whatever           *)
(* json.loads raises; re.search runs inside the handler, uncaught.         *)
(***************************************************************************)
RawText(text) == PyDict(Put(EmptyMap, "raw_text", text))

\* Variant: no search for a brace span, the fallback follows the failed parse.
ExtractJsonNoSearch(text) ==
    IF JsonLoads(text).ok THEN JsonLoads(text).v
    ELSE IF ~IsStr(text) THEN Raised("TypeError")
    ELSE RawText(text)

ExtractJson(text) ==
    LET whole == JsonLoads(text) IN
    IF whole.ok THEN whole.v
    ELSE IF ~IsStr(text) THEN Raised("TypeError")
    ELSE LET m == ReSearch(text.s) IN
         IF m.found
         THEN LET inner == JsonLoads(PyStr(m.group)) IN
              IF inner.ok THEN inner.v ELSE RawText(text)
         ELSE RawText(text)

(***************************************************************************)
(* Iteration, membership and length of a Python value.                     *)
(***************************************************************************)
\* for x in v: the elements of a list, the characters of a str, the keys of a dict.
Iter(v) ==
    CASE IsList(v) -> Tried(TRUE, v.items)
      [] IsStr(v) -> Tried(TRUE, [i \in 1..Len(v.s) |-> Atom(v.s[i])])
      [] IsDict(v) -> Tried(TRUE, [i \in 1..Len(Keys(v)) |-> Atom(Keys(v)[i])])
      [] OTHER -> Tried(FALSE, Raised("TypeError"))

\* key in v: a key of a dict, an element of a list, a substring of a str.
Contains(v, key) ==
    CASE IsDict(v) -> Tried(TRUE, key \in DOMAIN v.d)
      [] IsList(v) -> Tried(TRUE, \E i \in 1..Len(v.items) : v.items[i] = Atom(key))
      [] IsStr(v) -> Tried(TRUE, \E i \in 1..Len(v.s) : v.s[i] = key)
      [] OTHER -> Tried(FALSE, Raised("TypeError"))

\* t.get(key, default) of a dict t.
Get(t, key, default) == IF key \in DOMAIN t.d THEN t.d[key] ELSE default

(***************************************************************************)
(* to_df (lines 157-169) and the master table (line 175).                  *)
(***************************************************************************)
Columns == <<"Type", "ID", "Title", "Preconditions", "Steps", "Expected Result",
             "Priority">>

\* Variant: "".join, no separator.
RECURSIVE JoinStrsBare(_)
JoinStrsBare(items) ==
    IF Len(items) = 0 THEN << >>
    ELSE items[1].s \o JoinStrsBare(Tail(items))

\* "\n".join of a sequence of strs.
RECURSIVE JoinStrs(_)
JoinStrs(items) ==
    IF Len(items) = 0 THEN << >>
    ELSE IF Len(items) = 1 THEN items[1].s
    ELSE items[1].s \o <<"\n">> \o JoinStrs(Tail(items))

\* "\n".join(v): v must be iterable and hold only strs.
Join(v) ==
    LET it == Iter(v) IN
    IF ~it.ok THEN it.v
    ELSE IF \E i \in 1..Len(it.v) : ~IsStr(it.v[i]) THEN Raised("TypeError")
    ELSE PyStr(JoinStrs(it.v))

\* One row of to_df; t.get raises on an item that is no mapping.
Row(t, kind) ==
    IF ~IsDict(t) THEN Raised("AttributeError")
    ELSE LET steps == Join(Get(t, "steps", EmptyList)) IN
         IF IsRaised(steps) THEN steps
         ELSE [t |-> "row",
               Type |-> Atom(kind),
               ID |-> Get(t, "id", EmptyStr),
               Title |-> Get(t, "title", EmptyStr),
               Preconditions |-> Get(t, "preconditions", EmptyStr),
               Steps |-> steps,
               ExpectedResult |-> Get(t, "expected_result", EmptyStr),
               Priority |-> Get(t, "priority", Atom("Medium"))]

\* pd.DataFrame(rows): a frame of no rows has no columns.
DataFrame(rows) ==
    [t |-> "df", columns |-> IF rows = << >> THEN << >> ELSE Columns, rows |-> rows]

ToDf(items, kind) ==
    LET it == Iter(items) IN
    IF ~it.ok THEN it.v
    ELSE LET rows == [i \in 1..Len(it.v) |-> Row(it.v[i], kind)] IN
         IF \E i \in 1..Len(rows) : IsRaised(rows[i])
         THEN rows[CHOOSE i \in 1..Len(rows) :
                      IsRaised(rows[i]) /\ \A j \in 1..(i - 1) : ~IsRaised(rows[j])]
         ELSE DataFrame(rows)

\* Variant: pd.concat([df_neg, df_pos]).
ConcatSwapped(a, b) ==
    [t |-> "df",
     columns |-> IF a.columns = << >> THEN b.columns ELSE a.columns,
     rows |-> b.rows \o a.rows]

\* pd.concat([a, b], ignore_index=True)
Concat(a, b) ==
    [t |-> "df",
     columns |-> IF a.columns = << >> THEN b.columns ELSE a.columns,
     rows |-> a.rows \o b.rows]

\* Lines 153-175: pos, neg, df_pos, df_neg, df_all.
Normalize(p) ==
    IF ~IsDict(p) THEN Raised("AttributeError")
    ELSE LET pos == Get(p, "positive", EmptyList)
             neg == Get(p, "negative", EmptyList)
             df_pos == ToDf(pos, "Positive")
         IN  IF IsRaised(df_pos) THEN df_pos
             ELSE LET df_neg == ToDf(neg, "Negative") IN
                  IF IsRaised(df_neg) THEN df_neg
                  ELSE Concat(df_pos, df_neg)

(***************************************************************************)
(* Building texts: the compact JSON text of a value.                       *)
(***************************************************************************)
RECURSIVE Sep(_)
Sep(parts) ==
    IF Len(parts) = 0 THEN << >>
    ELSE IF Len(parts) = 1 THEN parts[1]
    ELSE parts[1] \o <<",">> \o Sep(Tail(parts))

RECURSIVE Dumps(_)
Dumps(v) ==
    CASE v.t = "num" -> <<"1">>
      [] v.t = "none" -> <<"null">>
      [] v.t = "str" -> <<Quote(v.s[1])>>
      [] v.t = "list" ->
           <<"[">> \o Sep([i \in 1..Len(v.items) |-> Dumps(v.items[i])]) \o <<"]">>
      [] v.t = "dict" ->
           <<"{">> \o Sep([i \in 1..Len(Keys(v)) |->
                             <<Quote(Keys(v)[i]), ":">> \o Dumps(v.d[Keys(v)[i]])])
                   \o <<"}">>

(***************************************************************************)
(* One script run (lines 102-263).                                         *)
(***************************************************************************)
NoEntry == "<no entry>"
NoKey == ""

\* Lines 105-107: a non-empty key_input is stored in the session state.
Sidebar(sk, key_input) == IF key_input # "" THEN key_input ELSE sk

\* get_api_key (lines 12-13).
GetApiKey(sk, env) == IF sk # NoEntry /\ sk # "" THEN sk ELSE env

\* Variant: a failed create() call is made a second time.
CallOpenaiRetry(api_key, response) ==
    IF api_key = "" THEN [calls |-> 0, result |-> Raised("ValueError")]
    ELSE [calls |-> IF IsRaised(response) THEN 2 ELSE 1, result |-> response]

\* call_openai (lines 15-31): one create() call, whose result or exception is
\* the response.
CallOpenai(api_key, response) ==
    IF api_key = "" THEN [calls |-> 0, result |-> Raised("ValueError")]
    ELSE [calls |-> 1, result |-> response]

\* Variant: "positive" not in parsed or "negative" not in parsed.
LacksEither(p) ==
    LET a == Contains(p, "positive") IN
    IF ~a.ok THEN a
    ELSE IF a.v
    THEN LET b == Contains(p, "negative") IN
         IF ~b.ok THEN b ELSE Tried(TRUE, ~b.v)
    ELSE Tried(TRUE, TRUE)

\* Line 147: "positive" not in parsed and "negative" not in parsed.
LacksBoth(p) ==
    LET a == Contains(p, "positive") IN
    IF ~a.ok THEN a
    ELSE IF a.v THEN Tried(TRUE, FALSE)
    ELSE LET b == Contains(p, "negative") IN
         IF ~b.ok THEN b ELSE Tried(TRUE, ~b.v)

\* Variant: the new rows are appended to the stored table.
StoreAppend(old, df_all) ==
    IF old = Absent THEN df_all ELSE Concat(old, df_all)

\* Line 178: st.session_state['last_results'] = df_all
StoreResults(old, df_all) == df_all

Ended(o, n, r, p, table, exp) ==
    [outcome |-> o, requests |-> n, raw |-> r, parsed |-> p, table |-> table,
     expander |-> exp]

\* Lines 153-179: normalization, the store, the success message.
Normalized(c, p, df_all, old) ==
    IF IsRaised(df_all) THEN Ended("Exception", c.calls, c.result, p, old, Absent)
    ELSE Ended("Success", c.calls, c.result, p, StoreResults(old, df_all), Absent)

\* Lines 147-151: the ParseFailure halt, with the raw output in an expander.
Checked(c, p, lacks, old) ==
    IF ~lacks.ok THEN Ended("Exception", c.calls, c.result, p, old, Absent)
    ELSE IF lacks.v THEN Ended("ParseFailure", c.calls, c.result, p, old, c.result)
    ELSE Normalized(c, p, Normalize(p), old)

\* Line 145: parsed = extract_json(raw), outside any try.
Extracted(c, p, old) ==
    IF IsRaised(p) THEN Ended("Exception", c.calls, c.result, p, old, Absent)
    ELSE Checked(c, p, LacksBoth(p), old)

\* Lines 139-143: any exception of call_openai is the RequestFailure halt.
Called(c, old) ==
    IF IsRaised(c.result)
    THEN Ended("RequestFailure", c.calls, NotRun, NotRun, old, Absent)
    ELSE Extracted(c, ExtractJson(c.result), old)

\* The generate_btn handler (lines 128-179).
Generate(api_key, a, response, old) ==
    IF api_key = "" THEN Ended("CredentialMissing", 0, NotRun, NotRun, old, Absent)
    ELSE IF a = "" THEN Ended("EmptyInput", 0, NotRun, NotRun, old, Absent)
    ELSE Called(CallOpenai(api_key, response), old)

\* Outcomes that end the script before the results block: st.stop(), or an
\* uncaught exception.
Halts == {"CredentialMissing", "EmptyInput", "RequestFailure", "ParseFailure"}
Stopped(o) == o \in Halts \cup {"Exception"}

\* Variant: the results block is drawn whether or not the run stopped.
DisplayAlways(o, table) ==
    IF table = Absent THEN [display |-> "nothing", shown |-> Absent]
    ELSE IF table.columns = << >> THEN [display |-> "KeyError", shown |-> table]
    ELSE [display |-> "complete", shown |-> table]

\* The results block (lines 182-263): reached unless the run stopped; the
\* "All Tests" tab draws the table, and the "Type" filter of the next tab
\* raises KeyError on a frame without columns.
Display(o, table) ==
    IF Stopped(o) THEN [display |-> "skipped", shown |-> Absent]
    ELSE IF table = Absent THEN [display |-> "nothing", shown |-> Absent]
    ELSE IF table.columns = << >> THEN [display |-> "KeyError", shown |-> table]
    ELSE [display |-> "complete", shown |-> table]

\* The assignments of a run that ended as g and drew d.
Finish(sk, a, click, g, d) ==
    /\ session_key' = sk
    /\ last_results' = g.table
    /\ clicked' = click
    /\ ac' = a
    /\ outcome' = g.outcome
    /\ requests' = g.requests
    /\ raw' = g.raw
    /\ parsed' = g.parsed
    /\ shown' = d.shown
    /\ display' = d.display
    /\ expander' = g.expander
    /\ UNCHANGED <<env_key, src>>

Shows(sk, a, click, g) == Finish(sk, a, click, g, Display(g.outcome, g.table))

Handles(sk, a, click, response) ==
    Shows(sk, a, click,
          IF click THEN Generate(GetApiKey(sk, env_key), a, response, last_results)
          ELSE Ended("Idle", 0, NotRun, NotRun, last_results, Absent))

\* A whole script run: sidebar, handler when clicked, results block.
ScriptRun(key_input, a, click, response) ==
    Handles(Sidebar(session_key, key_input), a, click, response)

(***************************************************************************)
(* The inputs of a script run.                                             *)
(***************************************************************************)
KeyInputs == {"", "sk-typed"}
EnvKeys == {"", "sk-env"}
Criteria == {"", "story"}

Obj1(k, v) == PyDict(k :> v)
Obj2(k1, v1, k2, v2) == PyDict((k1 :> v1) @@ (k2 :> v2))

ItemA ==
    PyDict(("id" :> Atom("a")) @@ ("title" :> Atom("b"))
           @@ ("steps" :> PyList(<<Atom("a"), Atom("b")>>))
           @@ ("priority" :> Atom("High")))
ItemB == Obj2("id", Atom("b"), "priority", Atom("Critical"))

\* Objects a completion may hold.
ReplyObjects ==
    { Obj2("positive", PyList(<<ItemA>>), "negative", EmptyList),
      Obj2("positive", PyList(<<ItemA>>), "negative", PyList(<<ItemB>>)),
      Obj2("positive", PyList(<<ItemB, ItemA>>), "negative", PyList(<<ItemA>>)),
      Obj2("positive", EmptyList, "negative", EmptyList),
      Obj1("positive", PyList(<<ItemB>>)),
      Obj1("negative", PyList(<<ItemA>>)),
      Obj1("a", PyNum),
      Obj2("positive", PyNum, "negative", EmptyList),
      Obj2("positive", PyList(<<PyNum>>), "negative", EmptyList) }

\* resp.choices[0].message.content (line 31): a text, or None.
Completions ==
    {PyStr(Dumps(v)) : v \in ReplyObjects}
    \cup {PyStr(<<"w">> \o Dumps(v) \o <<"w">>) : v \in ReplyObjects}
    \cup { PyStr(<< >>), PyStr(<<"w", "w">>), PyStr(<<"1">>), PyStr(<<"null">>),
           PyStr(<<"\"positive\"">>), PyStr(<<"[", "\"positive\"", "]">>),
           PyStr(<<"w", "{", "w", "}">>), PyNone }

Responses == Completions \cup {Raised("APIError")}

Idle ==
    \E k \in KeyInputs, a \in Criteria :
        /\ ScriptRun(k, a, FALSE, PyNone)
        /\ outcome' = "Idle"

CredentialMissing ==
    \E k \in KeyInputs, a \in Criteria, r \in Responses :
        /\ ScriptRun(k, a, TRUE, r)
        /\ outcome' = "CredentialMissing"

EmptyInput ==
    \E k \in KeyInputs, a \in Criteria, r \in Responses :
        /\ ScriptRun(k, a, TRUE, r)
        /\ outcome' = "EmptyInput"

RequestFailure ==
    \E k \in KeyInputs, a \in Criteria, r \in Responses :
        /\ ScriptRun(k, a, TRUE, r)
        /\ outcome' = "RequestFailure"

ParseFailure ==
    \E k \in KeyInputs, a \in Criteria, r \in Responses :
        /\ ScriptRun(k, a, TRUE, r)
        /\ outcome' = "ParseFailure"

UncaughtException ==
    \E k \in KeyInputs, a \in Criteria, r \in Responses :
        /\ ScriptRun(k, a, TRUE, r)
        /\ outcome' = "Exception"

Success ==
    \E k \in KeyInputs, a \in Criteria, r \in Responses :
        /\ ScriptRun(k, a, TRUE, r)
        /\ outcome' = "Success"

Init ==
    /\ env_key \in EnvKeys
    /\ session_key = NoEntry
    /\ last_results = Absent
    /\ clicked = FALSE
    /\ ac = ""
    /\ outcome = "Start"
    /\ requests = 0
    /\ raw = NotRun
    /\ parsed = NotRun
    /\ shown = Absent
    /\ display = "skipped"
    /\ expander = Absent
    /\ src = NotRun

Next ==
    \/ Idle
    \/ CredentialMissing
    \/ EmptyInput
    \/ RequestFailure
    \/ ParseFailure
    \/ UncaughtException
    \/ Success

Spec == Init /\ [][Next]_vars

(***************************************************************************)
(* extract_json alone: the text is prose, a core, prose.  The core is the  *)
(* JSON text of a value or a malformed piece; None stands for a completion *)
(* without content.                                                        *)
(***************************************************************************)
PadFragments ==
    { <<"w">>, <<" ">>, <<"{">>, <<"}">>, <<"[">>, <<"]">>, <<"{", "}">> }

RECURSIVE PadsUpTo(_)
PadsUpTo(n) ==
    IF n = 0 THEN {<< >>}
    ELSE PadsUpTo(n - 1) \cup {p \o f : p \in PadsUpTo(n - 1), f \in PadFragments}

Pads == PadsUpTo(MaxPad)

ExtractValues ==
    { Obj2("positive", PyList(<<ItemA>>), "negative", EmptyList),
      Obj2("positive", PyList(<<ItemB, ItemA>>), "negative", PyList(<<ItemA>>)),
      Obj2("positive", EmptyList, "negative", EmptyList),
      Obj1("positive", PyList(<<ItemB>>)),
      Obj1("a", PyNum),
      PyDict(EmptyMap),
      PyList(<<PyNum>>), PyList(<<Obj1("a", PyNum)>>), PyNum, PyNone,
      Atom("a") }

MalformedCores ==
    { << >>, <<"w">>, <<"{", "\"a\"", "}">>, <<"{", "\"a\"", ":", "1">>,
      <<"{", "\"a\"", ":", "1", ",", "}">>,
      <<"\"a\"", ":", "1", "}">> }

Source(pre, value, core, post) ==
    [t |-> "text", pre |-> pre, value |-> value, core |-> core, post |-> post]

ExtractSources ==
    {Source(pre, v, Dumps(v), post) : pre \in Pads, v \in ExtractValues, post \in Pads}
    \cup {Source(pre, NotRun, c, post) : pre \in Pads, c \in MalformedCores, post \in Pads}
    \cup {PyNone}

TextOf(x) == IF x = PyNone THEN PyNone ELSE PyStr(x.pre \o x.core \o x.post)

Idles ==
    /\ env_key = NoKey
    /\ session_key = NoEntry
    /\ last_results = Absent
    /\ clicked = FALSE
    /\ ac = ""
    /\ requests = 0
    /\ shown = Absent
    /\ display = "skipped"
    /\ expander = Absent

InitExtract ==
    /\ Idles
    /\ src \in ExtractSources
    /\ raw = TextOf(src)
    /\ parsed = NotRun
    /\ outcome = "ready"

Extract ==
    /\ outcome = "ready"
    /\ parsed' = ExtractJson(raw)
    /\ outcome' = IF IsRaised(parsed') THEN "raised" ELSE "returned"
    /\ UNCHANGED <<env_key, session_key, last_results, clicked, ac, requests, raw,
                   shown, display, expander, src>>

NextExtract == Extract

SpecExtract == InitExtract /\ [][NextExtract]_vars

(***************************************************************************)
(* The normalizer alone (lines 153-175), on parsed objects.                *)
(***************************************************************************)
ItemC ==
    PyDict(("title" :> Atom("a")) @@ ("steps" :> EmptyList)
           @@ ("priority" :> Atom("Low")))
ItemD == Obj2("id", Atom("Medium"), "steps", PyStr(<<"a", "b">>))
ItemE == Obj2("id", Atom("Low"), "steps", PyList(<<PyNum>>))

NormItems == {PyDict(EmptyMap), ItemA, ItemB, ItemC, ItemD, ItemE, PyNum}

RECURSIVE ListsUpTo(_)
ListsUpTo(n) ==
    IF n = 0 THEN {<< >>}
    ELSE ListsUpTo(n - 1)
         \cup {Append(l, x) : l \in {m \in ListsUpTo(n - 1) : Len(m) = n - 1},
                              x \in NormItems}

\* The value under a key: a list of at most n items, something that is no
\* list, or Absent for a missing key.
KeyValues(n) ==
    {PyList(l) : l \in ListsUpTo(n)} \cup {PyNum, EmptyStr, Absent}

Object(pos, neg) ==
    PyDict([k \in {x \in {"positive", "negative"} :
                      (x = "positive" /\ pos # Absent) \/ (x = "negative" /\ neg # Absent)}
              |-> IF k = "positive" THEN pos ELSE neg])

InitNormalize ==
    /\ Idles
    /\ src = NotRun
    /\ raw = NotRun
    /\ \E pos \in KeyValues(MaxItems), neg \in KeyValues(MaxItems - 1) :
          parsed = Object(pos, neg)
    /\ outcome = "ready"

Stored(g) ==
    /\ outcome' = g.outcome
    /\ last_results' = g.table
    /\ UNCHANGED <<env_key, session_key, clicked, ac, requests, raw, parsed, shown,
                   display, expander, src>>

\* Lines 153-178 on the parsed object: "Success" with the table stored, or
\* "Exception".
NormalizeStep ==
    /\ outcome = "ready"
    /\ Stored(Normalized([calls |-> 0, result |-> raw], parsed, Normalize(parsed),
                         last_results))

NextNormalize == NormalizeStep

SpecNormalize == InitNormalize /\ [][NextNormalize]_vars

(***************************************************************************)
(* Properties.                                                             *)
(***************************************************************************)
HasKey(p, k) == IsDict(p) /\ k \in DOMAIN p.d

\* The items under a key of the parsed object, none when the key is missing.
Elems(p, k) == IF HasKey(p, k) THEN Iter(p.d[k]).v ELSE << >>

FieldOr(t, k, default) == IF k \in DOMAIN t.d THEN t.d[k] ELSE default

\* Row r is the row of item t, tagged kind.
RowOf(r, t, kind) ==
    /\ r.Type = Atom(kind)
    /\ r.ID = FieldOr(t, "id", EmptyStr)
    /\ r.Title = FieldOr(t, "title", EmptyStr)
    /\ r.Preconditions = FieldOr(t, "preconditions", EmptyStr)
    /\ r.ExpectedResult = FieldOr(t, "expected_result", EmptyStr)

\* The table holds one row per positive item, then one per negative item, in
\* input order.
TableOf(table, p) ==
    LET pos == Elems(p, "positive")
        neg == Elems(p, "negative")
    IN  /\ Len(table.rows) = Len(pos) + Len(neg)
        /\ \A i \in 1..Len(pos) : RowOf(table.rows[i], pos[i], "Positive")
        /\ \A j \in 1..Len(neg) : RowOf(table.rows[Len(pos) + j], neg[j], "Negative")

CredentialEmpty == (session_key = NoEntry \/ session_key = "") /\ env_key = ""

\* C1: a Generate action issues no model request when the credential or the
\* acceptance criteria are empty (it halts with CredentialMissing or
\* EmptyInput), and exactly one otherwise; a failed request is not retried.
C1_RequestCount ==
    clicked =>
        /\ (CredentialEmpty => outcome = "CredentialMissing" /\ requests = 0)
        /\ (~CredentialEmpty /\ ac = "" => outcome = "EmptyInput" /\ requests = 0)
        /\ (~CredentialEmpty /\ ac # "" => requests = 1)
        /\ (outcome = "RequestFailure" => requests = 1)

C1_Witness == clicked /\ outcome = "RequestFailure" /\ requests = 1 /\ ac # ""

\* C2: a Generate action that ends in CredentialMissing, EmptyInput,
\* RequestFailure, ParseFailure or an exception leaves the stored table as it
\* was; only a successful one changes it, and then the stored table is exactly
\* the rows of the new result.
C2_AllOrNothing ==
    [][ /\ (Stopped(outcome') => last_results' = last_results)
        /\ (last_results' # last_results => outcome' = "Success")
        /\ (outcome' = "Success" => TableOf(last_results', parsed')) ]_vars

C2_Witness == outcome = "ParseFailure" /\ last_results # Absent

\* C3: extract_json never raises and always returns an object, for every
\* completion: the empty text, JSON that is no object, an absent completion.
C3_ObjectNeverRaises ==
    outcome # "ready" => outcome = "returned" /\ IsDict(parsed)

Min(S) == CHOOSE x \in S : \A y \in S : x <= y
Max(S) == CHOOSE x \in S : \A y \in S : x >= y

\* The substring from the first "{" to the last "}" of s, when there is one.
BraceSpan(s) ==
    LET opens == {i \in 1..Len(s) : s[i] = "{"}
        closes == {i \in 1..Len(s) : s[i] = "}"}
    IN  IF opens # {} /\ closes # {} /\ Min(opens) < Max(closes)
        THEN PyStr(SubSeq(s, Min(opens), Max(closes)))
        ELSE PyNone

FirstSuccess(text) ==
    IF JsonLoads(text).ok THEN JsonLoads(text).v
    ELSE IF JsonLoads(BraceSpan(text.s)).ok THEN JsonLoads(BraceSpan(text.s)).v
    ELSE PyDict("raw_text" :> text)

Blank(p) == \A i \in 1..Len(p) : p[i] = " "
Braceless(p) == \A i \in 1..Len(p) : p[i] \notin {"{", "}", "[", "]"}

\* C4: on a text, extract_json returns the strict parse of the whole text, else
\* the strict parse of the substring from the first "{" to the last "}", else
\* {raw_text: text}.  Well-formed JSON with positive and negative arrays comes
\* back with both keys intact; text without parseable JSON, the empty text
\* included, comes back as {raw_text: text}.
C4_FirstSuccess ==
    outcome # "ready" /\ IsStr(raw) =>
        /\ parsed = FirstSuccess(raw)
        /\ ( /\ Blank(src.pre) /\ Blank(src.post)
             /\ HasKey(src.value, "positive") /\ HasKey(src.value, "negative")
             => parsed = src.value )
        /\ ( src.core \in {<< >>, <<"w">>} /\ Braceless(src.pre \o src.post)
             => parsed = PyDict("raw_text" :> raw) )

\* The second step decided: the whole text is no JSON, the brace span is.
C4_Witness ==
    /\ outcome = "returned"
    /\ IsStr(raw)
    /\ src.pre = <<"w">>
    /\ src.post = <<"{">>
    /\ ~JsonLoads(raw).ok
    /\ HasKey(src.value, "negative")
    /\ parsed = src.value

ProseTokens == {"w", " ", "{", "}"}
IsProse(p) == \A i \in 1..Len(p) : p[i] \in ProseTokens

\* A valid JSON object with prose before and/or after it.
Embedded ==
    /\ outcome # "ready"
    /\ IsStr(raw)
    /\ IsDict(src.value)
    /\ ~Blank(src.pre \o src.post)

\* C5 as stated: extract_json returns the embedded object whatever the prose,
\* also when the prose holds braces or a second JSON-like block.
C5_Original ==
    Embedded /\ IsProse(src.pre) /\ IsProse(src.post) => parsed = src.value

\* C5: extract_json returns the embedded object when the prose before it
\* holds no "{", the prose after it holds no "}", and the text as a whole is
\* not valid JSON.
C5_EmbeddedObject ==
    /\ Embedded
    /\ \A i \in 1..Len(src.pre) : src.pre[i] # "{"
    /\ \A i \in 1..Len(src.post) : src.post[i] # "}"
    /\ ~JsonLoads(raw).ok
    => parsed = src.value

C5_Witness ==
    /\ Embedded
    /\ src.pre = <<"}">>
    /\ src.post = <<"{">>
    /\ HasKey(src.value, "positive")
    /\ parsed = src.value

\* C6 as stated: success exactly when the extracted object holds both keys; an
\* object missing either key is a ParseFailure.
C6_Original ==
    /\ (outcome = "Success" => HasKey(parsed, "positive") /\ HasKey(parsed, "negative"))
    /\ ( IsDict(parsed) /\ ~(HasKey(parsed, "positive") /\ HasKey(parsed, "negative"))
         => outcome = "ParseFailure" )

\* C6: the Generate flow halts with ParseFailure (raw output shown, no table
\* update) exactly when the extracted object holds neither key; an object
\* holding at least one of them is normalized, the missing key read as an
\* empty list, and on success replaces the stored table.
C6_EitherKey ==
    [][ /\ ( outcome' = "ParseFailure" =>
               /\ ~HasKey(parsed', "positive") /\ ~HasKey(parsed', "negative")
               /\ expander' = raw'
               /\ display' = "skipped"
               /\ last_results' = last_results )
        /\ ( outcome' = "Success" =>
               /\ HasKey(parsed', "positive") \/ HasKey(parsed', "negative")
               /\ TableOf(last_results', parsed') )
        /\ ( IsDict(parsed') =>
               IF HasKey(parsed', "positive") \/ HasKey(parsed', "negative")
               THEN outcome' \in {"Success", "Exception"}
               ELSE outcome' = "ParseFailure" ) ]_vars

C6_Witness ==
    /\ outcome = "Success"
    /\ HasKey(parsed, "positive")
    /\ ~HasKey(parsed, "negative")
    /\ Len(last_results.rows) = 1

Priorities == {Atom("High"), Atom("Medium"), Atom("Low")}

\* Every row of the table, with the item it was made from.
RowsAndItems(table, p) ==
    LET all == Elems(p, "positive") \o Elems(p, "negative")
    IN  {<<table.rows[i], all[i]>> : i \in 1..Len(all)}

\* C7: the Priority of every row is High, Medium or Low: the item's priority
\* when that is one of the three, Medium when it is absent or anything else.
C7_PriorityEnum ==
    outcome = "Success" =>
        \A ri \in RowsAndItems(last_results, parsed) :
            /\ ri[1].Priority \in Priorities
            /\ ri[1].Priority =
                  IF HasKey(ri[2], "priority") /\ ri[2].d["priority"] \in Priorities
                  THEN ri[2].d["priority"] ELSE Atom("Medium")

\* C8: after a successful generation the table has len(positive) +
\* len(negative) rows: a Positive row per item of positive in input order,
\* then a Negative row per item of negative in input order.
C8_RowsInOrder ==
    outcome = "Success" => TableOf(last_results, parsed)

C8_Witness ==
    /\ outcome = "Success"
    /\ Len(Elems(parsed, "positive")) = 2
    /\ Len(Elems(parsed, "negative")) = 1
    /\ Len(last_results.rows) = 3
    /\ last_results.rows[1].ID # last_results.rows[2].ID

StrList(v) == IsList(v) /\ \A i \in 1..Len(v.items) : IsStr(v.items[i])

\* The strs of a list, each one atom long, with a newline between neighbours.
Lines(items) ==
    [k \in 1..(2 * Len(items) - 1) |->
        IF k % 2 = 1 THEN items[(k + 1) \div 2].s[1] ELSE "\n"]

ListOrMissing(p, k) == HasKey(p, k) => IsList(p.d[k])

\* Every key holds a list of mappings whose steps, when present, are a list
\* of strs.
WellFormed(p) ==
    /\ ListOrMissing(p, "positive")
    /\ ListOrMissing(p, "negative")
    /\ \A t \in Range(Elems(p, "positive") \o Elems(p, "negative")) :
          IsDict(t) /\ (HasKey(t, "steps") => StrList(t.d["steps"]))

\* C9: the Steps of a row is the item's steps joined by newlines in their
\* order when steps is a sequence of strings, and the empty string when the
\* key is absent; a missing key never makes normalization fail.
C9_StepsJoined ==
    /\ ( outcome = "Success" =>
           \A ri \in RowsAndItems(last_results, parsed) :
               /\ (~HasKey(ri[2], "steps") => ri[1].Steps = EmptyStr)
               /\ ( HasKey(ri[2], "steps") /\ StrList(ri[2].d["steps"])
                    => ri[1].Steps.s = Lines(ri[2].d["steps"].items) ) )
    /\ (outcome = "Exception" => ~WellFormed(parsed))

C9_Witness ==
    /\ outcome = "Success"
    /\ Len(last_results.rows) = 2
    /\ last_results.rows[1].Steps = PyStr(<<"a", "\n", "b">>)
    /\ ~HasKey(Elems(parsed, "positive")[2], "steps")
    /\ last_results.rows[2].Steps = EmptyStr

\* C10: a run whose Generate action halts on a failure draws no results
\* section, also when a table is stored; the next run in which Generate is not
\* clicked, or succeeds, draws the stored table.
C10_HaltHidesResults ==
    [][ /\ (outcome' \in Halts => display' = "skipped" /\ shown' = Absent)
        /\ ( outcome' \in {"Idle", "Success"} /\ last_results' # Absent
             => display' # "skipped" /\ shown' = last_results' )
        /\ ( outcome \in Halts /\ outcome' = "Idle" /\ last_results # Absent
             => shown' = last_results ) ]_vars

C10_Witness ==
    /\ outcome = "RequestFailure"
    /\ last_results # Absent
    /\ display = "skipped"
    /\ shown = Absent

====
